---- MODULE Spec2Model ----
(***************************************************************************)
(* Model of the HitPaw photo-enhancer proxy: the POST /enhance-photo       *)
(* handler of src/server.js (and of the earlier variant of the same        *)
(* handler in src/unnamed/part_000), its two upstream calls and its        *)
(* bounded polling loop.                                                   *)
(*                                                                         *)
(* One run = one inbound request.  An async handler is cut at its awaits:  *)
(*   Receive        the synchronous prefix up to the first await           *)
(*   CreateSettles  the create-job fetch (and its body read) settles       *)
(*   DelayElapses   the setTimeout of one loop iteration fires             *)
(*   QuerySettles   the query-status fetch (and its body read) settles     *)
(* `await fetch(...)` and the `await resp.text()` / `await resp.json()`    *)
(* that directly follows it are one upstream event: an HttpResponse value  *)
(* says whether the transport rejected, the HTTP status and the body text. *)
(*                                                                         *)
(* JavaScript scalars are strings: "undefined", "null", "n:<number>",      *)
(* "s:<string>" ("s:" is the empty string), so that `!x`, `a || b` and     *)
(* `!==` are computed as JavaScript computes them.                         *)
(***************************************************************************)
EXTENDS Integers, Sequences, FiniteSets, TLC

\* ------------------------------------------------------------------ values

Undefined == "undefined"

\* JavaScript truthiness of a scalar: `!x` is ~Truthy(x)
Truthy(x) == x \notin {"undefined", "null", "s:", "n:0", "b:false"}

\* JavaScript `a || b`
Or(a, b) == IF Truthy(a) THEN a ELSE b

\* The nested `data` object of an upstream body; kind "undefined" is an absent
\* `data` field, and then every field reads as undefined.
NoData ==
  [kind |-> "undefined", job_id |-> Undefined, status |-> Undefined,
   res_url |-> Undefined, enhanced_url |-> Undefined, result_url |-> Undefined,
   original_url |-> Undefined, error_message |-> Undefined,
   fail_reason |-> Undefined, detail |-> Undefined, message |-> Undefined]

DataObj == [NoData EXCEPT !.kind = "object"]

\* A value JSON.parse can return: an object, null, or the number 0 (a falsy
\* scalar).  Property reads on a non-object scalar give undefined; property
\* reads on null throw a TypeError.
JsonNull == [kind |-> "null", code |-> Undefined, message |-> Undefined, data |-> NoData]
JsonZero == [kind |-> "zero", code |-> Undefined, message |-> Undefined, data |-> NoData]
JsonObj(code, message, data) ==
  [kind |-> "object", code |-> code, message |-> message, data |-> data]

\* `!v` for a parsed body
JsonTruthy(v) == v.kind = "object"

\* A body text: either not JSON at all, or the text of the JSON value `value`.
NonJsonText == [json |-> FALSE, value |-> JsonNull]
JsonText(v) == [json |-> TRUE, value |-> v]

\* One settled upstream call.  net = "rejected": fetch() or the body read
\* rejected (network error); otherwise `status` is the HTTP status and `text`
\* the body.
Rejected == [net |-> "rejected", status |-> "n:0", text |-> NonJsonText]
Http(status, text) == [net |-> "ok", status |-> status, text |-> text]

\* resp.ok: the status is in 200..299
RespOk(resp) == resp.status \in {"n:200", "n:201"}

\* ------------------------------------------------------ upstream responses

Codes == {Undefined, "n:0", "n:200", "n:500"}
Messages == {Undefined, "s:upstream message"}
JobIds == {"s:job-1", "s:job-2"}

CreateData ==
  {NoData} \cup {[DataObj EXCEPT !.job_id = j] : j \in {Undefined, "s:"} \cup JobIds}

CreateBodies ==
  {JsonNull, JsonZero}
    \cup {JsonObj(c, m, d) : c \in Codes, m \in Messages, d \in CreateData}

\* poll data: status values that do not end polling in either variant
PendingData ==
  {NoData} \cup
  {[DataObj EXCEPT !.status = s] :
      s \in {Undefined, "s:PENDING", "s:PROCESSING", "s:completed"}}

\* poll data: COMPLETED with every combination of the candidate URL fields
CompletedData ==
  {[DataObj EXCEPT !.status = "s:COMPLETED", !.res_url = a, !.enhanced_url = b,
                   !.result_url = c] :
      a \in {Undefined, "s:", "s:http://res"},
      b \in {Undefined, "s:http://enhanced"},
      c \in {Undefined, "s:http://result"}}
    \cup {[DataObj EXCEPT !.status = "s:COMPLETED", !.res_url = "s:http://res",
                          !.original_url = "s:http://original"]}

\* poll data: FAILED / ERROR with every combination of the reason fields
FailedData ==
  {[DataObj EXCEPT !.status = "s:FAILED", !.error_message = a, !.fail_reason = b,
                   !.detail = c] :
      a \in {Undefined, "s:", "s:error message"},
      b \in {Undefined, "s:fail reason"},
      c \in {Undefined, "s:detail"}}
    \cup {[DataObj EXCEPT !.status = "s:ERROR", !.detail = c] :
            c \in {Undefined, "s:detail"}}

\* poll data: the status values the earlier variant looks for
LegacyData ==
  {[DataObj EXCEPT !.status = s, !.message = m] :
      s \in {"s:success", "s:failed"}, m \in {Undefined, "s:data message"}}

PollData == PendingData \cup CompletedData \cup FailedData

\* a few data objects to combine with every `code` value
SampleData ==
  {NoData,
   [DataObj EXCEPT !.status = "s:PENDING"],
   [DataObj EXCEPT !.status = "s:COMPLETED"],
   [DataObj EXCEPT !.status = "s:COMPLETED", !.res_url = "s:http://res"],
   [DataObj EXCEPT !.status = "s:FAILED"],
   [DataObj EXCEPT !.status = "s:FAILED", !.detail = "s:detail"]}

\* and a few where the top-level `message` is set
MessageData ==
  {NoData,
   [DataObj EXCEPT !.status = "s:FAILED"],
   [DataObj EXCEPT !.status = "s:FAILED", !.detail = "s:detail"],
   [DataObj EXCEPT !.status = "s:ERROR"]}

PollBodies ==
  {JsonNull, JsonZero}
    \cup {JsonObj(Undefined, Undefined, d) : d \in PollData \cup LegacyData}
    \cup {JsonObj(c, Undefined, d) : c \in Codes, d \in SampleData}
    \cup {JsonObj(c, "s:upstream message", d) : c \in {Undefined, "n:500"}, d \in MessageData}

ResponsesWith(bodies) ==
  {Rejected, Http("n:500", NonJsonText), Http("n:500", JsonText(JsonNull)),
   Http("n:200", NonJsonText)}
    \cup {Http("n:200", JsonText(b)) : b \in bodies}

CreateResponses == ResponsesWith(CreateBodies)
PollResponses == ResponsesWith(PollBodies)

\* ------------------------------------------------------------- the request

\* req.body.image_url: absent, the empty string, or a URL
ImageUrls == {Undefined, "s:", "s:http://img"}

\* process.env.HITPAW_API_KEY: unset or set
ApiKeys == {Undefined, "s:key"}

Runs == {1, 2}

\* ------------------------------------------------------------------ errors

\* err.message of a thrown Error: a template literal `tag${a}...${b}`; parts
\* that quote the raw body text are not kept.
Msg(tag, a, b) == [tag |-> tag, a |-> a, b |-> b]
NoMsg == Msg("", "", "")

\* a function result: either a thrown error or a returned value
Throw(m) == [threw |-> TRUE, err |-> m, jobId |-> Undefined, data |-> JsonNull]
ReturnJobId(j) == [threw |-> FALSE, err |-> NoMsg, jobId |-> j, data |-> JsonNull]
ReturnData(d) == [threw |-> FALSE, err |-> NoMsg, jobId |-> Undefined, data |-> d]

\* ------------------------------------------------- src/server.js: functions

\* createEnhanceJob without the `data.code !== 200` test
createEnhanceJobNoCodeTest(resp) ==
  IF resp.net = "rejected" THEN Throw(Msg("fetch failed", "", ""))
  ELSE IF ~RespOk(resp)
    THEN Throw(Msg("HitPaw create job http error: ", resp.status, ""))
  ELSE IF ~resp.text.json
    THEN Throw(Msg("HitPaw create job returned non-JSON: ", "", ""))
  ELSE LET data == resp.text.value IN
    IF data.kind = "null" THEN Throw(Msg("TypeError: cannot read properties of null", "", ""))
    ELSE IF ~Truthy(data.data.job_id)
      THEN Throw(Msg("HitPaw create job missing job_id. Response: ", "", ""))
    ELSE ReturnJobId(data.data.job_id)

\* createEnhanceJob returning data.data.job_id without testing it
createEnhanceJobNoJobIdTest(resp) ==
  IF resp.net = "rejected" THEN Throw(Msg("fetch failed", "", ""))
  ELSE IF ~RespOk(resp)
    THEN Throw(Msg("HitPaw create job http error: ", resp.status, ""))
  ELSE IF ~resp.text.json
    THEN Throw(Msg("HitPaw create job returned non-JSON: ", "", ""))
  ELSE LET data == resp.text.value IN
    IF data.kind = "null" THEN Throw(Msg("TypeError: cannot read properties of null", "", ""))
    ELSE IF data.code # "n:200"
      THEN Throw(Msg("HitPaw create job failed: code=", data.code, data.message))
    ELSE ReturnJobId(data.data.job_id)

\* createEnhanceJob, from the settled fetch to the returned job id
createEnhanceJob(resp) ==
  IF resp.net = "rejected" THEN Throw(Msg("fetch failed", "", ""))
  ELSE IF ~RespOk(resp)
    THEN Throw(Msg("HitPaw create job http error: ", resp.status, ""))
  ELSE IF ~resp.text.json
    THEN Throw(Msg("HitPaw create job returned non-JSON: ", "", ""))
  ELSE LET data == resp.text.value IN
    IF data.kind = "null" THEN Throw(Msg("TypeError: cannot read properties of null", "", ""))
    ELSE IF data.code # "n:200"
      THEN Throw(Msg("HitPaw create job failed: code=", data.code, data.message))
    ELSE IF ~Truthy(data.data.job_id)
      THEN Throw(Msg("HitPaw create job missing job_id. Response: ", "", ""))
    ELSE ReturnJobId(data.data.job_id)

\* queryEnhanceResult with `catch { data = {} }` around JSON.parse
queryEnhanceResultLenient(resp) ==
  IF resp.net = "rejected" THEN Throw(Msg("fetch failed", "", ""))
  ELSE IF ~RespOk(resp)
    THEN Throw(Msg("HitPaw query status http error: ", resp.status, ""))
  ELSE IF ~resp.text.json
    THEN ReturnData(JsonObj(Undefined, Undefined, NoData))
  ELSE ReturnData(resp.text.value)

\* queryEnhanceResult, from the settled fetch to the parsed body
queryEnhanceResult(resp) ==
  IF resp.net = "rejected" THEN Throw(Msg("fetch failed", "", ""))
  ELSE IF ~RespOk(resp)
    THEN Throw(Msg("HitPaw query status http error: ", resp.status, ""))
  ELSE IF ~resp.text.json
    THEN Throw(Msg("HitPaw query status returned non-JSON: ", "", ""))
  ELSE ReturnData(resp.text.value)

maxAttempts == 20

\* the loop test written `i <= maxAttempts`
LoopTestOffByOne(n) == n <= maxAttempts

\* the loop test `i < maxAttempts`
LoopTest(n) == n < maxAttempts

\* `statusResp.code && statusResp.code !== 200`
StatusApiFailed(statusResp) ==
  Truthy(statusResp.code) /\ statusResp.code # "n:200"

\* `statusResp?.data?.status`
StatusOf(statusResp) == statusResp.data.status

\* EnhancedUrl reading res_url alone
EnhancedUrlResOnly(data) == data.res_url

\* `data.res_url || data.enhanced_url || data.result_url`
EnhancedUrl(data) == Or(Or(data.res_url, data.enhanced_url), data.result_url)

\* `data.original_url || image_url`
OriginalUrl(data, imageUrl) == Or(data.original_url, imageUrl)

\* FailDetail taking the top-level message as the only reason
FailDetailMessageOnly(statusResp) == Or(statusResp.message, "s:HitPaw task failed")

\* the reason of a FAILED / ERROR task
FailDetail(statusResp) ==
  Or(Or(Or(Or(statusResp.data.error_message, statusResp.data.fail_reason),
           statusResp.data.detail),
        statusResp.message),
     "s:HitPaw task failed")

\* `status === "FAILED" || status === "ERROR"`
IsFailedStatus(status) == status \in {"s:FAILED", "s:ERROR"}

\* IsCompletedStatus comparing without regard to case
IsCompletedStatusAnyCase(status) == status \in {"s:COMPLETED", "s:completed"}

\* `status === "COMPLETED"`
IsCompletedStatus(status) == status = "s:COMPLETED"

\* ------------------------------------------------------ responses to the caller

\* `last`: null, or JSON.stringify(of).slice(0, limit)
LastNull == [null |-> TRUE, of |-> JsonNull, limit |-> 0]
Stringify(v, n) == [null |-> FALSE, of |-> v, limit |-> n]

NoResponse ==
  [status |-> 0, error |-> NoMsg, job_id |-> Undefined, jstatus |-> Undefined,
   enhanced_url |-> Undefined, original_url |-> Undefined, last |-> LastNull,
   result |-> NoData]

\* res.status(status).json({ error })
ErrorResponse(status, m) == [NoResponse EXCEPT !.status = status, !.error = m]

\* the body of the 200 response
SuccessResponse(job, status, enhanced, original) ==
  [NoResponse EXCEPT !.status = 200, !.job_id = job, !.jstatus = status,
                     !.enhanced_url = enhanced, !.original_url = original]

\* the body of the 504 response
TimeoutResponse(job, last) ==
  [NoResponse EXCEPT !.status = 504,
                     !.error = Msg("Enhance timeout, please try again later.", "", ""),
                     !.job_id = job,
                     !.last = IF JsonTruthy(last) THEN Stringify(last, 800) ELSE LastNull]

\* the catch block answering 500, as the earlier variant does
CatchResponse500(m) ==
  ErrorResponse(500, IF m.tag # "" THEN m ELSE Msg("Upstream error", "", ""))

\* the catch block: 502 with `err.message || "Upstream error"`
CatchResponse(m) ==
  ErrorResponse(502, IF m.tag # "" THEN m ELSE Msg("Upstream error", "", ""))

\* One loop iteration after the query returned statusResp: what the handler
\* does next.  kind "throw" goes to the catch block, "respond" sends `resp`,
\* "continue" falls through to the end of the loop body.
Continue == [kind |-> "continue", err |-> NoMsg, resp |-> NoResponse]
Raise(m) == [kind |-> "throw", err |-> m, resp |-> NoResponse]
Respond(resp) == [kind |-> "respond", err |-> NoMsg, resp |-> resp]

\* PollStep going on with the loop when COMPLETED comes without a URL
PollStepSkipsMissingUrl(statusResp, imageUrl, job) ==
  IF statusResp.kind = "null"
    THEN Raise(Msg("TypeError: cannot read properties of null", "", ""))
  ELSE IF StatusApiFailed(statusResp)
    THEN Raise(Msg("HitPaw status api failed: code=", statusResp.code, statusResp.message))
  ELSE LET status == StatusOf(statusResp)
           data == statusResp.data IN
    IF IsCompletedStatus(status) /\ Truthy(EnhancedUrl(data))
      THEN Respond(SuccessResponse(job, status, EnhancedUrl(data),
                                   OriginalUrl(data, imageUrl)))
    ELSE IF IsFailedStatus(status)
      THEN Raise(Msg("HitPaw task ", status, FailDetail(statusResp)))
    ELSE Continue

PollStep(statusResp, imageUrl, job) ==
  IF statusResp.kind = "null"
    THEN Raise(Msg("TypeError: cannot read properties of null", "", ""))
  ELSE IF StatusApiFailed(statusResp)
    THEN Raise(Msg("HitPaw status api failed: code=", statusResp.code, statusResp.message))
  ELSE LET status == StatusOf(statusResp)
           data == statusResp.data IN
    IF IsCompletedStatus(status) THEN
      IF ~Truthy(EnhancedUrl(data))
        THEN Raise(Msg("COMPLETED but missing enhanced url. data=", "", ""))
        ELSE Respond(SuccessResponse(job, status, EnhancedUrl(data),
                                     OriginalUrl(data, imageUrl)))
    ELSE IF IsFailedStatus(status)
      THEN Raise(Msg("HitPaw task ", status, FailDetail(statusResp)))
    ELSE Continue

\* ------------------------------------------------------------------- state

VARIABLES
  impl,            \* which handler serves the route: "server.js" or "part_000"
  HITPAW_API_KEY,  \* module constant read from the environment at startup
  image_url,       \* image_url[r]: req.body.image_url of run r
  pc,              \* pc[r]: the await run r is suspended at
  jobId,           \* jobId[r]: the handler's local `jobId`
  i,               \* i[r]: the loop counter
  lastStatusResp,  \* lastStatusResp[r]: the handler's local `lastStatusResp`
  response,        \* response[r]: what was sent to the caller (status 0: nothing yet)
  log,             \* log[r]: the run's upstream calls, delays and responses, in order
  script           \* upstream responses one run has consumed and its twin has not

config == <<impl, HITPAW_API_KEY, image_url>>
vars == <<impl, HITPAW_API_KEY, image_url, pc, jobId, i, lastStatusResp,
          response, log, script>>

Event(ev, arg) == [ev |-> ev, arg |-> arg]

\* how often event `ev` is in run r's log
Count(r, ev) == Cardinality({k \in DOMAIN log[r] : log[r][k].ev = ev})

Creates(r) == Count(r, "create")
Queries(r) == Count(r, "query")
Delays(r) == Count(r, "delayElapsed")
Responses(r) == Count(r, "respond")

\* query-status fetches issued and not yet settled
Outstanding(r) == Queries(r) - Count(r, "querySettled")

InitRuns(variants, started) ==
  /\ impl \in variants
  /\ HITPAW_API_KEY \in ApiKeys
  /\ image_url \in [Runs -> ImageUrls]
  /\ \A r \in Runs \ started : image_url[r] = Undefined
  /\ pc = [r \in Runs |-> IF r \in started THEN "start" ELSE "idle"]
  /\ jobId = [r \in Runs |-> Undefined]
  /\ i = [r \in Runs |-> 0]
  /\ lastStatusResp = [r \in Runs |-> JsonNull]
  /\ response = [r \in Runs |-> NoResponse]
  /\ log = [r \in Runs |-> << >>]
  /\ script = << >>

\* ---------------------------------------------- src/server.js: the handler

\* res.status(..).json(..): the response goes out and the handler returns
Send(r, resp, events) ==
  /\ response' = [response EXCEPT ![r] = resp]
  /\ log' = [log EXCEPT ![r] = @ \o events \o <<Event("respond", "")>>]
  /\ pc' = [pc EXCEPT ![r] = "done"]

\* one counter at module scope, counted up by every request being served
LoopCounterShared(r) == i[1] + i[2]

\* `let i`: the counter of this invocation of the handler
LoopCounter(r) == i[r]

\* a loop whose query goes out at once, with the sleep left out
EnterLoopNoDelay(r, n, last, events) ==
  IF LoopTest(n)
    THEN /\ pc' = [pc EXCEPT ![r] = "awaitQuery"]
         /\ log' = [log EXCEPT ![r] = @ \o events \o <<Event("query", jobId'[r])>>]
         /\ UNCHANGED response
    ELSE Send(r, TimeoutResponse(jobId'[r], last), events)

\* EnterLoop with nothing after the loop: the handler returns and sends nothing
EnterLoopNoTimeoutResponse(r, n, last, events) ==
  IF LoopTest(n)
    THEN /\ pc' = [pc EXCEPT ![r] = "awaitDelay"]
         /\ log' = [log EXCEPT ![r] = @ \o events]
         /\ UNCHANGED response
    ELSE /\ pc' = [pc EXCEPT ![r] = "done"]
         /\ log' = [log EXCEPT ![r] = @ \o events]
         /\ UNCHANGED response

\* the top of a loop iteration: the loop test, then the setTimeout
EnterLoop(r, n, last, events) ==
  IF LoopTest(n)
    THEN /\ pc' = [pc EXCEPT ![r] = "awaitDelay"]
         /\ log' = [log EXCEPT ![r] = @ \o events]
         /\ UNCHANGED response
    ELSE Send(r, TimeoutResponse(jobId'[r], last), events)

\* InputCheck without the guard on the API key
InputCheckNoKeyTest(imageUrl, key) == IF ~Truthy(imageUrl) THEN 400 ELSE 0

\* InputCheck with the two guards in the other order
InputCheckKeyFirst(imageUrl, key) ==
  IF ~Truthy(key) THEN 500
  ELSE IF ~Truthy(imageUrl) THEN 400
  ELSE 0

\* the two guards at the top of the handler: the status of the early return,
\* or 0 when the handler goes on
InputCheck(imageUrl, key) ==
  IF ~Truthy(imageUrl) THEN 400
  ELSE IF ~Truthy(key) THEN 500
  ELSE 0

InputError(status) ==
  IF status = 400 THEN Msg("image_url is required", "", "")
  ELSE Msg("HITPAW_API_KEY not configured on server", "", "")

\* createEnhanceJob is called: the create-job fetch goes out
IssueCreate(r) ==
  /\ pc' = [pc EXCEPT ![r] = "awaitCreate"]
  /\ log' = [log EXCEPT ![r] = Append(@, Event("create", image_url[r]))]
  /\ UNCHANGED response

\* HandlerStart with `return` missing in front of the guards' responses
HandlerStartNoReturn(r) ==
  LET check == InputCheck(image_url[r], HITPAW_API_KEY)
      sent == IF check # 0 THEN <<Event("respond", "")>> ELSE << >> IN
  /\ pc[r] = "start"
  /\ pc' = [pc EXCEPT ![r] = "awaitCreate"]
  /\ log' = [log EXCEPT ![r] = @ \o sent \o <<Event("create", image_url[r])>>]
  /\ response' = IF check # 0
                   THEN [response EXCEPT ![r] = ErrorResponse(check, InputError(check))]
                   ELSE response
  /\ UNCHANGED <<config, jobId, i, lastStatusResp>>

\* the handler up to its first await
HandlerStart(r) ==
  LET check == InputCheck(image_url[r], HITPAW_API_KEY) IN
  /\ pc[r] = "start"
  /\ IF check # 0
       THEN Send(r, ErrorResponse(check, InputError(check)), << >>)
       ELSE IssueCreate(r)
  /\ UNCHANGED <<config, jobId, i, lastStatusResp>>

\* HandleCreate calling createEnhanceJob again when it throws
HandleCreateRetry(r, resp) ==
  LET res == createEnhanceJob(resp)
      settled == <<Event("createSettled", "")>> IN
  /\ pc[r] = "awaitCreate"
  /\ IF res.threw
       THEN /\ IF Creates(r) < 3
                 THEN /\ log' = [log EXCEPT ![r] = @ \o settled \o <<Event("create", image_url[r])>>]
                      /\ UNCHANGED <<pc, response>>
                 ELSE Send(r, CatchResponse(res.err), settled)
            /\ UNCHANGED <<jobId, i, lastStatusResp>>
       ELSE /\ jobId' = [jobId EXCEPT ![r] = res.jobId]
            /\ i' = [i EXCEPT ![r] = 0]
            /\ lastStatusResp' = [lastStatusResp EXCEPT ![r] = JsonNull]
            /\ EnterLoop(r, 0, JsonNull, settled)
  /\ UNCHANGED config

\* `const jobId = await createEnhanceJob(image_url)` settles with resp
HandleCreate(r, resp) ==
  LET res == createEnhanceJob(resp)
      settled == <<Event("createSettled", "")>> IN
  /\ pc[r] = "awaitCreate"
  /\ IF res.threw
       THEN /\ Send(r, CatchResponse(res.err), settled)
            /\ UNCHANGED <<jobId, i, lastStatusResp>>
       ELSE /\ jobId' = [jobId EXCEPT ![r] = res.jobId]
            /\ i' = [i EXCEPT ![r] = 0]
            /\ lastStatusResp' = [lastStatusResp EXCEPT ![r] = JsonNull]
            /\ EnterLoop(r, 0, JsonNull, settled)
  /\ UNCHANGED config

\* HandleDelay with `jobId` held in one module-level variable that the latest
\* create-job of any request overwrites
HandleDelaySharedJobId(r) ==
  LET o == CHOOSE q \in Runs : q # r
      shared == IF Truthy(jobId[o]) THEN jobId[o] ELSE jobId[r] IN
  /\ pc[r] = "awaitDelay"
  /\ pc' = [pc EXCEPT ![r] = "awaitQuery"]
  /\ log' = [log EXCEPT ![r] = @ \o <<Event("delayElapsed", ""), Event("query", shared)>>]
  /\ UNCHANGED <<config, jobId, i, lastStatusResp, response>>

\* HandleDelay calling queryEnhanceResult(image_url)
HandleDelayImageUrl(r) ==
  /\ pc[r] = "awaitDelay"
  /\ pc' = [pc EXCEPT ![r] = "awaitQuery"]
  /\ log' = [log EXCEPT ![r] = @ \o <<Event("delayElapsed", ""), Event("query", image_url[r])>>]
  /\ UNCHANGED <<config, jobId, i, lastStatusResp, response>>

\* the timer of one iteration fires and the status query is issued
HandleDelay(r) ==
  /\ pc[r] = "awaitDelay"
  /\ pc' = [pc EXCEPT ![r] = "awaitQuery"]
  /\ log' = [log EXCEPT ![r] = @ \o <<Event("delayElapsed", ""), Event("query", jobId[r])>>]
  /\ UNCHANGED <<config, jobId, i, lastStatusResp, response>>

\* `const statusResp = await queryEnhanceResult(jobId)` settles with resp,
\* and the rest of the loop body runs
HandleQuery(r, resp) ==
  LET res == queryEnhanceResult(resp)
      settled == <<Event("querySettled", "")>> IN
  /\ pc[r] = "awaitQuery"
  /\ UNCHANGED <<config, jobId>>
  /\ IF res.threw
       THEN /\ Send(r, CatchResponse(res.err), settled)
            /\ UNCHANGED <<i, lastStatusResp>>
       ELSE LET step == PollStep(res.data, image_url[r], jobId[r]) IN
            /\ lastStatusResp' = [lastStatusResp EXCEPT ![r] = res.data]
            /\ CASE step.kind = "throw" ->
                      /\ Send(r, CatchResponse(step.err), settled)
                      /\ UNCHANGED i
                 [] step.kind = "respond" ->
                      /\ Send(r, step.resp, settled)
                      /\ UNCHANGED i
                 [] OTHER ->
                      /\ i' = [i EXCEPT ![r] = @ + 1]
                      /\ EnterLoop(r, LoopCounter(r) + 1, res.data, settled)

Serves(variant) == impl = variant

Receive(r) == Serves("server.js") /\ HandlerStart(r) /\ UNCHANGED script

CreateSettles(r) ==
  /\ Serves("server.js")
  /\ \E resp \in CreateResponses : HandleCreate(r, resp)
  /\ UNCHANGED script

DelayElapses(r) == Serves("server.js") /\ HandleDelay(r) /\ UNCHANGED script

QuerySettles(r) ==
  /\ Serves("server.js")
  /\ \E resp \in PollResponses : HandleQuery(r, resp)
  /\ UNCHANGED script

\* ------------------------------------- src/unnamed/part_000: the handler

\* createEnhanceJob of the earlier variant: resp.json(), no resp.ok test
legacyCreateEnhanceJob(resp) ==
  IF resp.net = "rejected" THEN Throw(Msg("fetch failed", "", ""))
  ELSE IF ~resp.text.json THEN Throw(Msg("SyntaxError: invalid json", "", ""))
  ELSE LET data == resp.text.value IN
    IF data.kind = "null" THEN Throw(Msg("TypeError: cannot read properties of null", "", ""))
    ELSE IF data.code # "n:200"
      THEN Throw(Msg("HitPaw create job failed: ", data.message, ""))
    ELSE IF data.data.kind # "object"
      THEN Throw(Msg("TypeError: cannot read properties of undefined", "", ""))
    ELSE ReturnJobId(data.data.job_id)

\* queryEnhanceResult of the earlier variant
legacyQueryEnhanceResult(resp) ==
  IF resp.net = "rejected" THEN Throw(Msg("fetch failed", "", ""))
  ELSE IF ~resp.text.json THEN Throw(Msg("SyntaxError: invalid json", "", ""))
  ELSE ReturnData(resp.text.value)

\* the catch block of the earlier variant: 500 with e.message
LegacyCatchResponse(m) == ErrorResponse(500, m)

\* res.json({ code: 200, data: { job_id, result } })
LegacySuccessResponse(job, result) ==
  [NoResponse EXCEPT !.status = 200, !.job_id = job, !.result = result]

\* one loop iteration of the earlier variant after the query returned `status`
LegacyPollStep(status, job) ==
  IF status.kind = "null"
    THEN Raise(Msg("TypeError: cannot read properties of null", "", ""))
  ELSE IF status.data.kind = "object" /\ status.data.status = "s:success"
    THEN Respond(LegacySuccessResponse(job, status.data))
  ELSE IF status.data.kind = "object" /\ status.data.status = "s:failed"
    THEN Raise(Msg(Or(status.data.message, "s:HitPaw task failed"), "", ""))
  ELSE Continue

LegacyEnterLoop(r, n, events) ==
  IF LoopTest(n)
    THEN /\ pc' = [pc EXCEPT ![r] = "awaitDelay"]
         /\ log' = [log EXCEPT ![r] = @ \o events]
         /\ UNCHANGED response
    ELSE Send(r, ErrorResponse(504, Msg("Enhance timeout", "", "")), events)

\* the guard at the top of the earlier handler
LegacyInputCheck(imageUrl) == IF ~Truthy(imageUrl) THEN 400 ELSE 0

LegacyHandlerStart(r) ==
  LET check == LegacyInputCheck(image_url[r]) IN
  /\ pc[r] = "start"
  /\ IF check # 0
       THEN Send(r, ErrorResponse(check, InputError(check)), << >>)
       ELSE IssueCreate(r)
  /\ UNCHANGED <<config, jobId, i, lastStatusResp>>

LegacyHandleCreate(r, resp) ==
  LET res == legacyCreateEnhanceJob(resp)
      settled == <<Event("createSettled", "")>> IN
  /\ pc[r] = "awaitCreate"
  /\ IF res.threw
       THEN /\ Send(r, LegacyCatchResponse(res.err), settled)
            /\ UNCHANGED <<jobId, i>>
       ELSE /\ jobId' = [jobId EXCEPT ![r] = res.jobId]
            /\ i' = [i EXCEPT ![r] = 0]
            /\ LegacyEnterLoop(r, 0, settled)
  /\ UNCHANGED <<config, lastStatusResp>>

LegacyHandleQuery(r, resp) ==
  LET res == legacyQueryEnhanceResult(resp)
      settled == <<Event("querySettled", "")>> IN
  /\ pc[r] = "awaitQuery"
  /\ UNCHANGED <<config, jobId, lastStatusResp>>
  /\ IF res.threw
       THEN /\ Send(r, LegacyCatchResponse(res.err), settled)
            /\ UNCHANGED i
       ELSE LET step == LegacyPollStep(res.data, jobId[r]) IN
            CASE step.kind = "throw" ->
                   /\ Send(r, LegacyCatchResponse(step.err), settled)
                   /\ UNCHANGED i
              [] step.kind = "respond" ->
                   /\ Send(r, step.resp, settled)
                   /\ UNCHANGED i
              [] OTHER ->
                   /\ i' = [i EXCEPT ![r] = @ + 1]
                   /\ LegacyEnterLoop(r, i[r] + 1, settled)

LegacyReceive(r) == Serves("part_000") /\ LegacyHandlerStart(r) /\ UNCHANGED script

LegacyCreateSettles(r) ==
  /\ Serves("part_000")
  /\ \E resp \in CreateResponses : LegacyHandleCreate(r, resp)
  /\ UNCHANGED script

LegacyDelayElapses(r) == Serves("part_000") /\ HandleDelay(r) /\ UNCHANGED script

LegacyQuerySettles(r) ==
  /\ Serves("part_000")
  /\ \E resp \in PollResponses : LegacyHandleQuery(r, resp)
  /\ UNCHANGED script

\* ----------------------------------------------------- one inbound request

Init == InitRuns({"server.js", "part_000"}, {1})

Next ==
  \E r \in {1} :
    \/ Receive(r)
    \/ CreateSettles(r)
    \/ DelayElapses(r)
    \/ QuerySettles(r)
    \/ LegacyReceive(r)
    \/ LegacyCreateSettles(r)
    \/ LegacyDelayElapses(r)
    \/ LegacyQuerySettles(r)

Spec == Init /\ [][Next]_vars

\* ================================================================== claims

\* once the response is sent the run does nothing more
DoneIsFinal(r) == pc[r] = "done" => (pc'[r] = "done" /\ log'[r] = log[r])

\* C1: a request whose image_url is absent or falsy gets the 400
\* 'image_url is required' response and makes no upstream call (no create-job,
\* no query-status), whether or not the API key is configured; in both
\* variants of the handler.
C1_MissingImageUrl ==
  \A r \in Runs :
    (pc[r] # "idle" /\ ~Truthy(image_url[r])) =>
      /\ pc[r] \in {"start", "done"}
      /\ Creates(r) = 0
      /\ Queries(r) = 0
      /\ pc[r] = "done" =>
           /\ response[r] = ErrorResponse(400, Msg("image_url is required", "", ""))
           /\ log[r] = <<Event("respond", "")>>

C1_Witness ==
  \E r \in Runs :
    /\ Serves("server.js")
    /\ pc[r] = "done"
    /\ image_url[r] = "s:"
    /\ ~Truthy(HITPAW_API_KEY)
    /\ response[r].status = 400

\* what the claims call an HTTP-successful, parseable body
Parsed(resp) == resp.net = "ok" /\ resp.status = "n:200" /\ resp.text.json

\* C2: when create-job returns an HTTP-successful, parseable body whose
\* application code is not 200, the request ends with 502, and no query-status
\* call and no poll delay is issued, then or later.
C2_CreateAppError ==
  [][\A r \in Runs :
       /\ \A resp \in CreateResponses :
            ( /\ Serves("server.js")
              /\ Parsed(resp)
              /\ resp.text.value.code # "n:200"
              /\ HandleCreate(r, resp) ) =>
              /\ pc'[r] = "done"
              /\ response'[r].status = 502
              /\ Queries(r)' = 0
              /\ Delays(r)' = 0
       /\ DoneIsFinal(r)]_vars

C2_Witness ==
  \E r \in Runs :
    /\ pc[r] = "done"
    /\ response[r].status = 502
    /\ response[r].error.tag = "HitPaw create job failed: code="
    /\ response[r].error.a = "n:500"
    /\ Creates(r) = 1
    /\ Queries(r) = 0

\* ---- the words of the claims about poll responses

TerminalStatuses == {"s:COMPLETED", "s:FAILED", "s:ERROR"}

\* the body carries no application code other than the success code
NoAppCode(v) == ~Truthy(v.code) \/ v.code = "n:200"

\* a poll response whose status can be read and does not end polling
NonTerminal(resp) ==
  /\ Parsed(resp)
  /\ resp.text.value.kind # "null"
  /\ resp.text.value.data.status \notin TerminalStatuses
  /\ NoAppCode(resp.text.value)

NonTerminalResponses == {resp \in PollResponses : NonTerminal(resp)}

\* the first populated value of a list of three candidates ("undefined" if none)
FirstPopulated(a, b, c) ==
  IF Truthy(a) THEN a ELSE IF Truthy(b) THEN b ELSE IF Truthy(c) THEN c ELSE Undefined

UrlFields(d) == {d.res_url, d.enhanced_url, d.result_url}
ReasonFields(v) ==
  {v.data.error_message, v.data.fail_reason, v.data.detail, v.message}

\* a poll response with status `status` and one of `fields` populated
StatusWith(resp, status, fields) ==
  /\ Parsed(resp)
  /\ resp.text.value.kind = "object"
  /\ resp.text.value.data.status = status
  /\ \E f \in fields : Truthy(f)

CompletedWithUrl ==
  {resp \in PollResponses :
     StatusWith(resp, "s:COMPLETED", UrlFields(resp.text.value.data))}

FailedWithReason ==
  {resp \in PollResponses :
     StatusWith(resp, "s:FAILED", ReasonFields(resp.text.value))}

\* the job id the handler holds is the one create-job returned, and polling
\* never changes it
JobIdFromCreate(r) ==
  /\ \A resp \in CreateResponses :
       (Serves("server.js") /\ HandleCreate(r, resp) /\ pc'[r] # "done") =>
          /\ Parsed(resp)
          /\ jobId'[r] = resp.text.value.data.job_id
  /\ pc[r] \in {"awaitDelay", "awaitQuery"} => jobId'[r] = jobId[r]

\* C3: after a successful create-job, when every poll response has a
\* non-terminal status and no application error code, the handler makes exactly
\* maxAttempts query-status calls and then answers 504 with the job id of
\* create-job and a serialization of the last, 20th, poll response.
C3_TimeoutCarriesLast ==
  [][\A r \in Runs :
       /\ \A resp \in NonTerminalResponses :
            (Serves("server.js") /\ HandleQuery(r, resp)) =>
               IF Queries(r) < maxAttempts
                 THEN /\ pc'[r] = "awaitDelay"
                      /\ response'[r] = NoResponse
                 ELSE /\ pc'[r] = "done"
                      /\ Queries(r)' = maxAttempts
                      /\ response'[r].status = 504
                      /\ response'[r].job_id = jobId[r]
                      /\ response'[r].last = Stringify(resp.text.value, 800)
       /\ JobIdFromCreate(r)
       /\ DoneIsFinal(r)]_vars

\* C4 as claimed: for every N in 1..maxAttempts, when the first N-1 poll
\* responses are non-terminal and the Nth has status COMPLETED with a populated
\* result-URL field, the handler answers 200 with that URL as enhanced_url and
\* the created job id, after exactly N query-status calls and nothing after.
C4_CompletedAtN_Original ==
  [][\A r \in Runs :
       /\ \A resp \in CompletedWithUrl :
            ( /\ Serves("server.js")
              /\ HandleQuery(r, resp) ) =>
              /\ pc'[r] = "done"
              /\ response'[r].status = 200
              /\ response'[r].enhanced_url \in UrlFields(resp.text.value.data)
              /\ Truthy(response'[r].enhanced_url)
              /\ response'[r].job_id = jobId[r]
              /\ Queries(r)' = i[r] + 1
       /\ JobIdFromCreate(r)
       /\ DoneIsFinal(r)]_vars

\* C4 amended: the same, for an Nth response that carries no application error
\* code; the URL returned is the first populated of res_url, enhanced_url,
\* result_url.
C4_CompletedAtN ==
  [][\A r \in Runs :
       /\ \A resp \in CompletedWithUrl :
            ( /\ Serves("server.js")
              /\ NoAppCode(resp.text.value)
              /\ HandleQuery(r, resp) ) =>
              /\ pc'[r] = "done"
              /\ response'[r].status = 200
              /\ response'[r].enhanced_url =
                   FirstPopulated(resp.text.value.data.res_url,
                                  resp.text.value.data.enhanced_url,
                                  resp.text.value.data.result_url)
              /\ response'[r].job_id = jobId[r]
              /\ Queries(r)' = i[r] + 1
              /\ Queries(r)' \in 1..maxAttempts
       /\ JobIdFromCreate(r)
       /\ DoneIsFinal(r)]_vars

C4_Witness ==
  \E r \in Runs :
    /\ pc[r] = "done"
    /\ response[r].status = 200
    /\ response[r].enhanced_url = "s:http://enhanced"
    /\ response[r].job_id = "s:job-2"
    /\ lastStatusResp[r].data.res_url = "s:"
    /\ Queries(r) = maxAttempts

\* the 502 answer of a failed task with reason `reason`
IsFailure(resp, status, reason) ==
  /\ resp.status = 502
  /\ resp.error = Msg("HitPaw task ", status, reason)

\* C5 as claimed: a poll response with status FAILED and a populated reason
\* field ends the request at once as a Failure with that exact reason, after
\* fewer than maxAttempts query-status calls.
C5_FailedStops_Original ==
  [][\A r \in Runs :
       /\ \A resp \in FailedWithReason :
            ( /\ Serves("server.js")
              /\ HandleQuery(r, resp) ) =>
              /\ pc'[r] = "done"
              /\ \E reason \in ReasonFields(resp.text.value) :
                   Truthy(reason) /\ IsFailure(response'[r], "s:FAILED", reason)
              /\ Queries(r)' < maxAttempts
       /\ DoneIsFinal(r)]_vars

\* C5 amended: a poll response without application error code, with status
\* FAILED and a populated reason field, ends the request at once as a Failure
\* (502) whose reason is the first populated of error_message, fail_reason,
\* detail and the top-level message; it is the Nth response after N
\* query-status calls, N at most maxAttempts.
C5_FailedStops ==
  [][\A r \in Runs :
       /\ \A resp \in FailedWithReason :
            ( /\ Serves("server.js")
              /\ NoAppCode(resp.text.value)
              /\ HandleQuery(r, resp) ) =>
              /\ pc'[r] = "done"
              /\ IsFailure(response'[r], "s:FAILED",
                   IF Truthy(resp.text.value.data.error_message)
                     THEN resp.text.value.data.error_message
                     ELSE FirstPopulated(resp.text.value.data.fail_reason,
                                         resp.text.value.data.detail,
                                         resp.text.value.message))
              /\ Queries(r)' = i[r] + 1
              /\ Queries(r)' <= maxAttempts
       /\ DoneIsFinal(r)]_vars

C5_Witness ==
  \E r \in Runs :
    /\ pc[r] = "done"
    /\ IsFailure(response[r], "s:FAILED", "s:fail reason")
    /\ lastStatusResp[r].data.detail = "s:detail"
    /\ Queries(r) = maxAttempts

\* what a run needs to get past the guards at the top of its handler
PassesChecks(r) ==
  /\ Truthy(image_url[r])
  /\ Serves("server.js") => Truthy(HITPAW_API_KEY)

\* C6: one request issues the create-job call at most once: exactly once when
\* it passes the input and configuration checks, never otherwise, and no
\* outcome of create-job or of a poll leads to a second one.
C6_CreateOnce ==
  \A r \in Runs :
    /\ Creates(r) <= 1
    /\ (pc[r] \notin {"idle", "start"} /\ PassesChecks(r)) => Creates(r) = 1
    /\ ~PassesChecks(r) => Creates(r) = 0

C6_Witness ==
  \E r \in Runs :
    /\ pc[r] = "done"
    /\ Creates(r) = 1
    /\ Queries(r) = maxAttempts
    /\ response[r].status = 502

\* C7: the number of query-status calls a request has issued never exceeds
\* maxAttempts, whatever the upstream answers.
C7_QueryBudget == \A r \in Runs : Queries(r) <= maxAttempts

C7_Witness ==
  \E r \in Runs : Queries(r) = maxAttempts /\ pc[r] = "done" /\ response[r].status = 504

\* C8: polling is sequential and paced: at most one query-status call is
\* outstanding; every query-status call directly follows one elapsed delay,
\* which itself follows the settling of the previous upstream call; and the
\* elapsed delays are as many as the queries issued.
C8_SequentialPaced ==
  \A r \in Runs :
    /\ Outstanding(r) \in {0, 1}
    /\ Delays(r) = Queries(r)
    /\ \A k \in DOMAIN log[r] :
         /\ log[r][k].ev = "query" =>
              /\ k >= 3
              /\ log[r][k - 1].ev = "delayElapsed"
              /\ log[r][k - 2].ev \in {"createSettled", "querySettled"}
         /\ log[r][k].ev = "delayElapsed" =>
              /\ k < Len(log[r])
              /\ log[r][k + 1].ev = "query"

C8_Witness ==
  \E r \in Runs :
    /\ Outstanding(r) = 1
    /\ Queries(r) = 3
    /\ Delays(r) = 3
    /\ Count(r, "querySettled") = 2

\* ---- two runs of the same request against the same upstream responses

\* how far the upstream sequence may be consumed by one run ahead of the other
MaxLag == 2

TwinCreateResponses ==
  {Rejected,
   Http("n:200", JsonText(JsonObj("n:500", "s:upstream message", NoData)))}
    \cup {Http("n:200", JsonText(JsonObj("n:200", Undefined, [DataObj EXCEPT !.job_id = j]))) :
            j \in {"s:"} \cup JobIds}

TwinPollData ==
  {[DataObj EXCEPT !.status = "s:PENDING"],
   [DataObj EXCEPT !.status = "s:COMPLETED"],
   [DataObj EXCEPT !.status = "s:COMPLETED", !.enhanced_url = "s:http://enhanced"],
   [DataObj EXCEPT !.status = "s:FAILED", !.fail_reason = "s:fail reason"]}

TwinPollResponses ==
  {Rejected, Http("n:500", NonJsonText), Http("n:200", NonJsonText),
   Http("n:200", JsonText(JsonZero)),
   Http("n:200", JsonText(JsonObj("n:500", "s:upstream message", NoData)))}
    \cup {Http("n:200", JsonText(JsonObj(Undefined, Undefined, d))) : d \in TwinPollData}

\* upstream responses run r has consumed
Taken(r) == Count(r, "createSettled") + Count(r, "querySettled")

Twin(r) == CHOOSE o \in Runs : o # r

\* The upstream sequence is fixed as it is first consumed: the run that is
\* ahead draws the next response from `pool` and records it in `script`; the
\* run that is behind gets the response its twin got at the same position.
Offered(r, pool) ==
  IF Taken(r) < Taken(Twin(r)) THEN {Head(script)}
  ELSE IF Len(script) < MaxLag THEN pool
  ELSE {}

Consume(r, resp) ==
  script' = IF Taken(r) < Taken(Twin(r)) THEN Tail(script) ELSE Append(script, resp)

TwinCreateSettles(r) ==
  /\ Serves("server.js")
  /\ \E resp \in Offered(r, TwinCreateResponses) :
       HandleCreate(r, resp) /\ Consume(r, resp)

TwinQuerySettles(r) ==
  /\ Serves("server.js")
  /\ \E resp \in Offered(r, TwinPollResponses) :
       HandleQuery(r, resp) /\ Consume(r, resp)

InitTwin ==
  /\ InitRuns({"server.js"}, Runs)
  /\ \A r \in Runs : image_url[r] = image_url[1]

NextTwin ==
  \E r \in Runs :
    \/ Receive(r)
    \/ TwinCreateSettles(r)
    \/ DelayElapses(r)
    \/ TwinQuerySettles(r)

SpecTwin == InitTwin /\ [][NextTwin]_vars

\* C9: two runs of the handler for the same request, given the same sequence
\* of upstream responses (the create response, then the poll responses), end
\* with the same response (status code and body) and the same numbers of
\* create-job and query-status calls.
C9_Deterministic ==
  (pc[1] = "done" /\ pc[2] = "done") =>
     /\ response[1] = response[2]
     /\ Creates(1) = Creates(2)
     /\ Queries(1) = Queries(2)
     /\ script = << >>

C9_Witness ==
  /\ pc[1] = "done"
  /\ pc[2] = "done"
  /\ response[1].status = 504
  /\ response[2].status = 504
  /\ Queries(1) = maxAttempts

\* ---- status codes

CreateFailures ==
  {resp \in CreateResponses :
     \/ ~Parsed(resp)
     \/ resp.text.value.code # "n:200"
     \/ ~Truthy(resp.text.value.data.job_id)}

PollFailures ==
  {resp \in PollResponses :
     \/ ~Parsed(resp)
     \/ resp.text.value.kind = "null"
     \/ ~NoAppCode(resp.text.value)
     \/ resp.text.value.data.status \in {"s:FAILED", "s:ERROR"}
     \/ /\ resp.text.value.data.status = "s:COMPLETED"
        /\ \A u \in UrlFields(resp.text.value.data) : ~Truthy(u)}

\* what each status code of a sent response says about the request
StatusMeans(r) ==
  LET st == response[r].status
      last == lastStatusResp[r] IN
  /\ st \in {200, 400, 500, 502, 504}
  /\ st = 200 =>
       /\ last.kind = "object"
       /\ last.data.status = "s:COMPLETED"
       /\ NoAppCode(last)
       /\ Truthy(response[r].enhanced_url)
       /\ response[r].enhanced_url \in UrlFields(last.data)
  /\ st = 400 <=> ~Truthy(image_url[r])
  /\ st = 500 <=> (Truthy(image_url[r]) /\ ~Truthy(HITPAW_API_KEY))
  /\ st = 504 =>
       /\ Queries(r) = maxAttempts
       /\ last.kind # "null"
       /\ last.data.status \notin TerminalStatuses
       /\ NoAppCode(last)
  /\ st = 502 => Creates(r) = 1

C11_MissingApiKey ==
  \A r \in Runs :
    (Serves("server.js") /\ Truthy(image_url[r]) /\ ~Truthy(HITPAW_API_KEY)) =>
      /\ pc[r] \in {"start", "done"}
      /\ Creates(r) = 0
      /\ Queries(r) = 0
      /\ pc[r] = "done" =>
           /\ response[r] =
                ErrorResponse(500, Msg("HITPAW_API_KEY not configured on server", "", ""))
           /\ log[r] = <<Event("respond", "")>>

C11_Witness ==
  \E r \in Runs :
    /\ Serves("server.js")
    /\ pc[r] = "done"
    /\ image_url[r] = "s:http://img"
    /\ HITPAW_API_KEY = Undefined
    /\ response[r].status = 500
    /\ log[r] = <<Event("respond", "")>>

\* ------------------------------------------- two requests in flight at once

\* The upstream gives every create-job call a job id of its own.
ConcJobId(r) == IF r = 1 THEN "s:job-1" ELSE "s:job-2"

ConcCreateResponses(r) ==
  {Rejected,
   Http("n:200", JsonText(JsonObj("n:500", "s:upstream message", NoData))),
   Http("n:200", JsonText(JsonObj("n:200", Undefined, [DataObj EXCEPT !.job_id = ConcJobId(r)])))}

ConcPollData ==
  {[DataObj EXCEPT !.status = "s:PENDING"],
   [DataObj EXCEPT !.status = "s:PROCESSING"],
   [DataObj EXCEPT !.status = "s:COMPLETED", !.res_url = "s:http://res"],
   [DataObj EXCEPT !.status = "s:FAILED", !.fail_reason = "s:fail reason"]}

ConcPollResponses ==
  {Http("n:500", NonJsonText)}
    \cup {Http("n:200", JsonText(JsonObj(Undefined, Undefined, d))) : d \in ConcPollData}

ConcCreateSettles(r) ==
  /\ Serves("server.js")
  /\ \E resp \in ConcCreateResponses(r) : HandleCreate(r, resp)
  /\ UNCHANGED script

ConcQuerySettles(r) ==
  /\ Serves("server.js")
  /\ \E resp \in ConcPollResponses : HandleQuery(r, resp)
  /\ UNCHANGED script

InitConc == InitRuns({"server.js"}, Runs)

\* any interleaving of the two requests' steps between their awaits
NextConc ==
  \E r \in Runs :
    \/ Receive(r)
    \/ ConcCreateSettles(r)
    \/ DelayElapses(r)
    \/ ConcQuerySettles(r)

SpecConc == InitConc /\ [][NextConc]_vars

\* what run r holds: its position, its locals, its response and its calls
Own(r) == <<pc[r], jobId[r], i[r], lastStatusResp[r], response[r], log[r]>>

ConcCreated(r) ==
  Http("n:200", JsonText(JsonObj("n:200", Undefined, [DataObj EXCEPT !.job_id = ConcJobId(r)])))

\* The response run r sends when the handler runs alone, has made Queries(r)
\* queries for its own job and gets resp to the latest one (status 0: none,
\* the loop goes on).
AloneResult(r, resp) ==
  LET res == queryEnhanceResult(resp) IN
  IF res.threw THEN CatchResponse(res.err)
  ELSE LET step == PollStep(res.data, image_url[r], ConcJobId(r)) IN
    IF step.kind = "throw" THEN CatchResponse(step.err)
    ELSE IF step.kind = "respond" THEN step.resp
    ELSE IF Queries(r) < maxAttempts THEN NoResponse
    ELSE TimeoutResponse(ConcJobId(r), res.data)

\* C12: two requests in flight at once do not interfere.  Under every
\* interleaving of their steps, a step of one request leaves the other's
\* position, locals, response and calls as they were; every create-job call of
\* a request carries its own image_url and every query-status call the job id
\* its own create-job returned; the attempt counter counts the request's own
\* settled queries and the last snapshot is the body of its own latest query;
\* and the response a request sends is the one the handler sends when it runs
\* alone against that request's upstream responses.
C12_Isolated ==
  [][\A r \in Runs :
       /\ (log'[r] = log[r]) => (Own(r)' = Own(r))
       /\ \A k \in DOMAIN log'[r] :
            /\ (log'[r][k].ev = "create") => (log'[r][k].arg = image_url[r])
            /\ (log'[r][k].ev = "query") => (log'[r][k].arg = ConcJobId(r))
       /\ \A resp \in ConcCreateResponses(r) :
            (Serves("server.js") /\ HandleCreate(r, resp)) =>
               IF resp = ConcCreated(r)
                 THEN /\ pc'[r] = "awaitDelay"
                      /\ jobId'[r] = ConcJobId(r)
                      /\ i'[r] = 0
                      /\ lastStatusResp'[r] = JsonNull
                      /\ response'[r] = NoResponse
                 ELSE /\ pc'[r] = "done"
                      /\ response'[r] = CatchResponse(createEnhanceJob(resp).err)
                      /\ Queries(r)' = 0
       /\ \A resp \in ConcPollResponses :
            (Serves("server.js") /\ HandleQuery(r, resp)) =>
               /\ response'[r] = AloneResult(r, resp)
               /\ pc'[r] = IF AloneResult(r, resp).status = 0 THEN "awaitDelay" ELSE "done"
               /\ Parsed(resp) => (lastStatusResp'[r] = resp.text.value)
               /\ (pc'[r] = "awaitDelay") => (i'[r] = Queries(r))
               /\ jobId'[r] = ConcJobId(r)
    ]_vars

\* request 1 timed out on its own job while request 2 is in the middle of its
\* polling with a different snapshot
C12_Witness ==
  /\ response[1] =
       TimeoutResponse("s:job-1", JsonObj(Undefined, Undefined, [DataObj EXCEPT !.status = "s:PENDING"]))
  /\ Queries(1) = maxAttempts
  /\ pc[2] = "awaitDelay"
  /\ i[2] = 3
  /\ jobId[2] = "s:job-2"
  /\ lastStatusResp[2] = JsonObj(Undefined, Undefined, [DataObj EXCEPT !.status = "s:PROCESSING"])

\* ---- application error code in a poll response

\* parsed poll bodies that carry an application code other than 200
AppCodeResponses ==
  {resp \in PollResponses :
     /\ Parsed(resp)
     /\ resp.text.value.code \notin {Undefined, "n:200"}}

\* C13: a parsed poll body that carries an application code distinct from 200
\* ends the request at once with 502 and a message that embeds the upstream
\* code and message, whatever its status field says, and no further delay or
\* query follows.
C13_AppCodeFails ==
  [][\A r \in Runs : \A resp \in AppCodeResponses :
       (Serves("server.js") /\ HandleQuery(r, resp)) =>
          /\ pc'[r] = "done"
          /\ response'[r] =
               CatchResponse(Msg("HitPaw status api failed: code=",
                                 resp.text.value.code, resp.text.value.message))
          /\ Queries(r)' = Queries(r)
          /\ Delays(r)' = Delays(r)
    ]_vars

\* ---- COMPLETED without a result URL

CompletedNoUrl ==
  {resp \in PollResponses :
     /\ Parsed(resp)
     /\ resp.text.value.kind # "null"
     /\ resp.text.value.data.status = "s:COMPLETED"
     /\ \A u \in UrlFields(resp.text.value.data) : ~Truthy(u)}

\* C14: a poll response with status COMPLETED in which none of res_url,
\* enhanced_url, result_url is populated ends the request with 502 at that
\* attempt, the last one included: no 200, no 504, no further delay or query.
C14_CompletedNoUrlFails ==
  [][\A r \in Runs : \A resp \in CompletedNoUrl :
       (Serves("server.js") /\ HandleQuery(r, resp)) =>
          /\ pc'[r] = "done"
          /\ response'[r].status = 502
          /\ NoAppCode(resp.text.value) =>
               response'[r].error.tag = "COMPLETED but missing enhanced url. data="
          /\ Queries(r)' = Queries(r)
          /\ Delays(r)' = Delays(r)
    ]_vars

\* the 20th query is answered COMPLETED without a URL
C14_Witness ==
  \E r \in Runs :
    /\ Serves("server.js")
    /\ pc[r] = "done"
    /\ Queries(r) = maxAttempts
    /\ response[r].status = 502
    /\ response[r].error.tag = "COMPLETED but missing enhanced url. data="
    /\ lastStatusResp[r].data.status = "s:COMPLETED"

\* ---- the other status values

\* C15: only COMPLETED, FAILED and ERROR end polling.  A poll response with no
\* application error code whose status is anything else (PENDING, PROCESSING,
\* an unrecognized string, no status, no data) sends nothing to the caller
\* and, while attempts remain, leaves the request waiting for the next delay,
\* after which the next step of the request is that delay followed by the
\* next query for the same job.
C15_OtherStatusContinues ==
  [][\A r \in Runs :
       /\ \A resp \in NonTerminalResponses :
            (Serves("server.js") /\ HandleQuery(r, resp) /\ Queries(r) < maxAttempts) =>
               /\ pc'[r] = "awaitDelay"
               /\ response'[r] = NoResponse
               /\ Responses(r)' = 0
               /\ log'[r] = Append(log[r], Event("querySettled", ""))
       /\ (Serves("server.js") /\ pc[r] = "awaitDelay" /\ log'[r] # log[r]) =>
            /\ log'[r] = log[r] \o <<Event("delayElapsed", ""), Event("query", jobId[r])>>
            /\ pc'[r] = "awaitQuery"
    ]_vars

\* a second query went out after an unrecognized status
C15_Witness ==
  \E r \in Runs :
    /\ Serves("server.js")
    /\ pc[r] = "awaitQuery"
    /\ Queries(r) = 2
    /\ lastStatusResp[r].data.status = "s:completed"
    /\ response[r] = NoResponse

\* ---- a query-status call that fails in transport

QueryHttpErrors == {resp \in PollResponses : resp.net = "ok" /\ ~RespOk(resp)}
QueryNonJson == {resp \in PollResponses : resp.net = "ok" /\ RespOk(resp) /\ ~resp.text.json}

\* C16: a query-status call that comes back with a non-2xx HTTP status or with
\* a body that is not JSON ends the request with 502 at that attempt: the
\* failed query is not issued again, and no delay or query follows, then or
\* later.
C16_QueryTransportFails ==
  [][\A r \in Runs :
       /\ \A resp \in QueryHttpErrors \cup QueryNonJson :
            (Serves("server.js") /\ HandleQuery(r, resp)) =>
               /\ pc'[r] = "done"
               /\ response'[r].status = 502
               /\ response'[r].error.tag =
                    IF resp \in QueryHttpErrors
                      THEN "HitPaw query status http error: "
                      ELSE "HitPaw query status returned non-JSON: "
               /\ Queries(r)' = Queries(r)
               /\ Delays(r)' = Delays(r)
               /\ lastStatusResp'[r] = lastStatusResp[r]
       /\ Serves("server.js") => DoneIsFinal(r)
    ]_vars

\* the third query returned a body that is not JSON
C16_Witness ==
  \E r \in Runs :
    /\ Serves("server.js")
    /\ pc[r] = "done"
    /\ Queries(r) = 3
    /\ Delays(r) = 3
    /\ response[r].status = 502
    /\ response[r].error.tag = "HitPaw query status returned non-JSON: "

\* ---- what counts as a created job

\* 2xx, a JSON body, the success code and a non-empty job id
CreateSuccesses ==
  {resp \in CreateResponses :
     /\ resp.net = "ok"
     /\ RespOk(resp)
     /\ resp.text.json
     /\ resp.text.value.code = "n:200"
     /\ resp.text.value.data.job_id \notin {Undefined, "null", "s:"}}

\* C17: create-job succeeds exactly when the HTTP response is 2xx, the body
\* parses, its code is 200 and it holds a non-empty job id: then the request
\* holds that job id and goes on to poll.  Every other create outcome ends the
\* request with 502 after exactly one create-job call, no delay and no
\* query-status call, and nothing follows the response.
C17_CreateSucceedsOnlyWhen ==
  [][\A r \in Runs :
       /\ \A resp \in CreateResponses :
            (Serves("server.js") /\ HandleCreate(r, resp)) =>
               IF resp \in CreateSuccesses
                 THEN /\ pc'[r] = "awaitDelay"
                      /\ jobId'[r] = resp.text.value.data.job_id
                      /\ response'[r] = NoResponse
                 ELSE /\ pc'[r] = "done"
                      /\ response'[r].status = 502
                      /\ Creates(r)' = 1
                      /\ Delays(r)' = 0
                      /\ Queries(r)' = 0
       /\ (Serves("server.js") /\ pc[r] = "done") => (log'[r] = log[r])
    ]_vars

\* the create response has the success code and an empty job id
C17_Witness ==
  \E r \in Runs :
    /\ Serves("server.js")
    /\ pc[r] = "done"
    /\ response[r] =
         CatchResponse(Msg("HitPaw create job missing job_id. Response: ", "", ""))
    /\ Creates(r) = 1
    /\ Queries(r) = 0

\* ---- one response, and nothing after it

\* the events of one request in the order the handler can produce them:
\* create, its settling, then rounds of delay, query, settling
PathEvent(k) ==
  IF k = 1 THEN "create"
  ELSE IF k = 2 THEN "createSettled"
  ELSE IF k % 3 = 0 THEN "delayElapsed"
  ELSE IF k % 3 = 1 THEN "query"
  ELSE "querySettled"

\* Created, Polling*, then the response: a response is the last event, and
\* it follows a settled create or a settled query
OnPath(r) ==
  \A k \in DOMAIN log[r] :
    IF log[r][k].ev = "respond"
      THEN /\ k = Len(log[r])
           /\ k > 1 => log[r][k - 1].ev \in {"createSettled", "querySettled"}
      ELSE log[r][k].ev = PathEvent(k)

\* Completed, Failed, TimedOut (and the two guards' early returns)
Outcomes == {200, 502, 504, 400, 500}

\* C18: terminal outcomes are absorbing.  A request sends one response: none
\* while it is under way, exactly one when the handler has returned, never a
\* second one.  Up to the response its path is create-job, then rounds of
\* delay and query-status, then one of 200 (Completed), 502 (Failed) or 504
\* (TimedOut); after the response it issues no create-job, no query-status
\* and no delay, and the response stays what it was.
C18_Absorbing ==
  [][\A r \in Runs :
       /\ Responses(r)' = IF pc'[r] = "done" THEN 1 ELSE 0
       /\ (response'[r] = NoResponse) <=> (pc'[r] # "done")
       /\ pc'[r] = "done" => response'[r].status \in Outcomes
       /\ (pc'[r] = "done" /\ Creates(r)' > 0) =>
            response'[r].status \in (IF Serves("server.js") THEN {200, 502, 504}
                                                            ELSE {200, 500, 504})
       /\ OnPath(r)'
       /\ pc[r] = "done" => (Own(r)' = Own(r))
    ]_vars

\* a request that polled three times and then got its 200
C18_Witness ==
  \E r \in Runs :
    /\ pc[r] = "done"
    /\ response[r].status = 200
    /\ Responses(r) = 1
    /\ Queries(r) = 3
    /\ Len(log[r]) = 12
    /\ log[r][12].ev = "respond"

\* ---- the job id of the queries

\* C19: no query-status call goes out before the request's create-job call
\* has returned a job id, and every query-status call carries that job id:
\* the id the handler holds is the one in the create response, it does not
\* change once it is set, and it is the argument of every query in the log.
C19_QueriesCarryJobId ==
  [][\A r \in Runs :
       Serves("server.js") =>
         /\ \A resp \in CreateResponses :
              HandleCreate(r, resp) =>
                 /\ Queries(r)' = 0
                 /\ jobId'[r] = IF resp \in CreateSuccesses
                                  THEN resp.text.value.data.job_id
                                  ELSE Undefined
         /\ pc[r] \in {"awaitDelay", "awaitQuery", "done"} => (jobId'[r] = jobId[r])
         /\ \A k \in DOMAIN log'[r] :
              (log'[r][k].ev = "query") =>
                 /\ k > 2
                 /\ log'[r][2].ev = "createSettled"
                 /\ jobId'[r] \in JobIds
                 /\ log'[r][k].arg = jobId'[r]
    ]_vars

\* twenty queries, each for job-2
C19_Witness ==
  \E r \in Runs :
    /\ Serves("server.js")
    /\ Queries(r) = maxAttempts
    /\ jobId[r] = "s:job-2"
    /\ \A k \in DOMAIN log[r] : (log[r][k].ev = "query") => (log[r][k].arg = "s:job-2")

\* ------------------------------------------------------------- termination

\* The runtime runs a handler that is ready to run, every upstream call
\* settles (with a response or an error) and every timer fires.
Fairness ==
  \A r \in {1} :
    /\ WF_vars(Receive(r))
    /\ WF_vars(CreateSettles(r))
    /\ WF_vars(DelayElapses(r))
    /\ WF_vars(QuerySettles(r))
    /\ WF_vars(LegacyReceive(r))
    /\ WF_vars(LegacyCreateSettles(r))
    /\ WF_vars(LegacyDelayElapses(r))
    /\ WF_vars(LegacyQuerySettles(r))

SpecLive == Init /\ [][Next]_vars /\ Fairness

\* C20: when every upstream call eventually settles and every delay
\* eventually elapses, every request eventually sends its one response and
\* has returned, having made at most one create-job call and at most 20
\* query-status calls, whatever the upstream answers.
C20_Terminates ==
  \A r \in Runs :
    (pc[r] = "start") ~>
      (/\ pc[r] = "done"
       /\ Responses(r) = 1
       /\ response[r] # NoResponse
       /\ Creates(r) <= 1
       /\ Queries(r) <= maxAttempts)

\* the longest run: one create, twenty delays and queries, then the 504
C20_Witness ==
  \E r \in Runs :
    /\ pc[r] = "done"
    /\ Responses(r) = 1
    /\ Creates(r) = 1
    /\ Delays(r) = maxAttempts
    /\ Queries(r) = maxAttempts
    /\ Len(log[r]) = 3 * maxAttempts + 3
    /\ response[r].status = 504

====
